---- MODULE Spec2Model ----
(***************************************************************************)
(* A model of dynamorm's OneToOne relationship descriptor                  *)
(* (dynamorm/relationships.py).                                            *)
(*                                                                         *)
(* One descriptor object is declared on the owning model class ("Parent")  *)
(* and points at the other model class ("Child").  Being a class           *)
(* attribute, the descriptor and its other_inst cache are shared by every  *)
(* Parent instance.  The state is the descriptor's fields, the two tables  *)
(* of the store, and a record of what the most recent operation was given, *)
(* returned and called.                                                    *)
(***************************************************************************)
EXTENDS Integers, Sequences, FiniteSets, TLC

\* ------------------------------------------------------------- bounds
\* The number of instances of the owning model the program holds.
NumOwners == 2

\* ------------------------------------------------------------- values
\* Python's None.
NoneVal == [type |-> "NoneType"]

Owners == 1 .. NumOwners

\* The owning instances: Parent objects whose attributes carry their own key
\* values and the key reference <rel>_id they were built or loaded with.
OwnerInst(o) ==
    [type |-> "Parent",
     fields |-> [name |-> o, age |-> 40 + o, child_id |-> [name |-> 20 + o]]]

\* The Table accessors the other model may have: hash key only, or hash and
\* range key.
Accessors ==
    {[hash_key |-> "name"], [hash_key |-> "name", range_key |-> "age"]}

\* The values application code may assign to the relationship attribute:
\* Child instances it built itself, and things that are no Child at all.
UserInstances ==
    {[type |-> "Child", fields |-> [name |-> 0, age |-> 13], partial |-> FALSE,
      origin |-> "user", for |-> 0],
     [type |-> "Child", fields |-> [name |-> 0], partial |-> TRUE,
      origin |-> "user", for |-> 0]}

NotInstances ==
    {[type |-> "Parent", fields |-> [name |-> 0, age |-> 13], partial |-> FALSE,
      origin |-> "user", for |-> 0]}

VARIABLES
    accessor,      \* self.accessor: the other model's Table
    auto_create,   \* self.auto_create
    other_inst,    \* self.other_inst: the descriptor's cached related instance
    table,         \* the other model's table in the store: a set of rows
    parent_table,  \* the owning model's table: owner -> row or NoneVal
    calls,         \* the facade/store calls the last operation made, in order
    last,          \* the last operation: its input, result and pre-state
    decl,          \* declaring a OneToOne and calling its query (QuerySpec)
    schema,        \* a model class, its Table and the remote table (TableSpec)
    many           \* a OneToMany collection and the store behind it (ManySpec)

\* the state of the descriptor in use and of the store it works on
descriptor_vars ==
    <<accessor, auto_create, other_inst, table, parent_table, calls, last>>

vars == <<accessor, auto_create, other_inst, table, parent_table, calls, last,
          decl, schema, many>>

\* The value of a part of the state a specification does not exercise.
Idle == [stage |-> "idle"]

\* ------------------------------------------------------------- helpers
range_key_set(acc) == "range_key" \in DOMAIN acc

\* Python truthiness of what other_inst can hold: None is falsy, a model
\* instance (no __bool__, no __len__) is truthy.
Truthy(x) == x # NoneVal

isinstance(v, cls) == v.type = cls

getattr(instance, attr) == instance.fields[attr]

\* OneToOne.default_query: the owning instance's attributes named like the
\* target's keys, under the target's key names.
default_query(acc, instance) ==
    IF range_key_set(acc)
    THEN [k \in {acc.hash_key, acc.range_key} |-> getattr(instance, k)]
    ELSE [k \in {acc.hash_key} |-> getattr(instance, k)]

\* self.query (query=None at construction)
query(obj) == default_query(accessor, obj)

\* ---------------------------------------------- the model facade (Child)
KeyNames(acc) ==
    IF range_key_set(acc) THEN {acc.hash_key, acc.range_key} ELSE {acc.hash_key}

PrimaryKey(fields) ==
    [k \in (KeyNames(accessor) \cap DOMAIN fields) |-> fields[k]]

\* other.query(**kwargs): the rows that match every keyword.
ModelQuery(tbl, kwargs) ==
    {r \in tbl : \A k \in DOMAIN kwargs : k \in DOMAIN r /\ r[k] = kwargs[k]}

\* next(results): any row of a non-empty result, StopIteration (NoneVal here)
\* of an empty one.
NextResult(results) == IF results = {} THEN {NoneVal} ELSE results

SameKey(r, fields) == PrimaryKey(r) = PrimaryKey(fields)

\* inst.save(partial=...): a full save puts the whole item, a partial save
\* updates the attributes the instance carries on the stored item.
ModelSave(tbl, inst, partial) ==
    LET old == {r \in tbl : SameKey(r, inst.fields)}
        merged ==
            IF partial /\ old # {}
            THEN LET r == CHOOSE r \in old : TRUE
                 IN [k \in DOMAIN r \cup DOMAIN inst.fields |->
                        IF k \in DOMAIN inst.fields THEN inst.fields[k] ELSE r[k]]
            ELSE inst.fields
    IN (tbl \ old) \cup {merged}

\* inst.delete()
ModelDelete(tbl, inst) == {r \in tbl : ~SameKey(r, inst.fields)}

\* The effect on the other model's table of the facade calls in cs, in order.
RECURSIVE ApplyCalls(_, _)
ApplyCalls(tbl, cs) ==
    IF cs = <<>> THEN tbl
    ELSE LET c == Head(cs)
             t == IF c.call = "save" THEN ModelSave(tbl, c.inst, c.partial)
                  ELSE IF c.call = "delete" THEN ModelDelete(tbl, c.inst)
                  ELSE tbl
         IN ApplyCalls(t, Tail(cs))

SaveCalls(cs) == SelectSeq(cs, LAMBDA c : c.call = "save")
DeleteCalls(cs) == SelectSeq(cs, LAMBDA c : c.call = "delete")
QueryCalls(cs) == SelectSeq(cs, LAMBDA c : c.call = "query")
\* the calls that can change the other model's table
WriteCalls(cs) == SelectSeq(cs, LAMBDA c : c.call \in {"save", "delete"})

\* ------------------------------------------------------ the descriptor
\* The owning instance an instance was resolved or assigned for (its identity
\* is its hash key value).
OwnerOf(obj) == obj.fields.name

\* An instance built from a row the query returned.
FromRow(row, obj) ==
    [type |-> "Child", fields |-> row, partial |-> FALSE,
     origin |-> "query", for |-> OwnerOf(obj)]

\* A variant of NewOther that forgets to mark the new instance partial.
NewOther_unmarked(query_kwargs, partial, obj) ==
    [type |-> "Child", fields |-> query_kwargs, partial |-> FALSE,
     origin |-> "create", for |-> OwnerOf(obj)]

\* self.other(**query_kwargs) with query_kwargs['partial'] = True
NewOther(query_kwargs, partial, obj) ==
    [type |-> "Child", fields |-> query_kwargs, partial |-> partial,
     origin |-> "create", for |-> OwnerOf(obj)]

\* get_other_inst: the value of self.other_inst when it returns, res being
\* what next(results) gave (a row, or NoneVal for StopIteration).
get_other_inst(cached, obj, create_missing, res) ==
    LET query_kwargs == query(obj)
    IN IF res # NoneVal THEN FromRow(res, obj)
       ELSE IF create_missing THEN NewOther(query_kwargs, TRUE, obj)
       ELSE cached

\* A variant of SetAttrs that caches the instance without stamping it.
SetAttrs_skipped(new_instance, query_kwargs) == new_instance

\* the setattr loop of __set__
SetAttrs(new_instance, query_kwargs) ==
    [new_instance EXCEPT !.fields =
        [k \in DOMAIN new_instance.fields \cup DOMAIN query_kwargs |->
            IF k \in DOMAIN query_kwargs THEN query_kwargs[k]
            ELSE new_instance.fields[k]]]

\* A variant of SetAccepts without the isinstance check.
SetAccepts_anything(new_instance) == TRUE

\* __set__ raises TypeError unless this holds
SetAccepts(new_instance) == isinstance(new_instance, "Child")

\* A variant of post_save that saves partially.
post_save_partial(cached) ==
    IF Truthy(cached)
    THEN <<[call |-> "save", inst |-> cached, partial |-> TRUE]>>
    ELSE <<>>

\* post_save(sender, instance, put_kwargs): the calls it makes
post_save(cached) ==
    IF Truthy(cached)
    THEN <<[call |-> "save", inst |-> cached, partial |-> FALSE]>>
    ELSE <<>>

\* A variant of post_update that saves in full.
post_update_full(cached) ==
    IF Truthy(cached)
    THEN <<[call |-> "save", inst |-> cached, partial |-> FALSE]>>
    ELSE <<>>

\* post_update(sender, instance, conditions, update_item_kwargs, updates)
post_update(cached) ==
    IF Truthy(cached)
    THEN <<[call |-> "save", inst |-> cached, partial |-> TRUE]>>
    ELSE <<>>

\* __delete__ resolves first only when nothing is cached
DeleteResolves(cached) == cached = NoneVal

\* A variant of cache_after_delete that keeps the deleted instance cached.
cache_after_delete_kept(resolved) == resolved

\* the cache once __delete__ has deleted the instance it found
cache_after_delete(resolved) == NoneVal

\* ------------------------------------------------------------- signals
\* The owning model class, and the other model class of the program.
this == "Parent"
OtherModels == {"Child"}

\* A variant of set_this_model that connects without a sender.
set_this_model_unscoped(model) ==
    <<[signal |-> "post_save", receiver |-> "post_save", sender |-> "ANY"],
      [signal |-> "post_update", receiver |-> "post_update", sender |-> "ANY"]>>

\* set_this_model(model): the connections it makes, in order.
set_this_model(model) ==
    <<[signal |-> "post_save", receiver |-> "post_save", sender |-> model],
      [signal |-> "post_update", receiver |-> "post_update", sender |-> model]>>

\* The receivers a signal sent by sender reaches, in connection order.
Receivers(signal, sender) ==
    SelectSeq(set_this_model(this),
              LAMBDA c : c.signal = signal /\ c.sender \in {sender, "ANY"})

ReceiverNames(signal, sender) ==
    [i \in 1 .. Len(Receivers(signal, sender)) |->
        Receivers(signal, sender)[i].receiver]

\* signal.send(sender, ...): the calls the receivers make, one after another.
RECURSIVE RunReceivers(_, _)
RunReceivers(rs, cached) ==
    IF rs = <<>> THEN <<>>
    ELSE (IF Head(rs).receiver = "post_save" THEN post_save(cached)
          ELSE post_update(cached)) \o RunReceivers(Tail(rs), cached)

send(signal, sender, cached) == RunReceivers(Receivers(signal, sender), cached)

\* A variant of FacadeCalls that sends the signal before writing the item.
FacadeCalls_signal_first(kind, o, put_ok, signal, sender, cached) ==
    send(signal, sender, cached)
        \o <<[call |-> (IF put_ok THEN kind ELSE "put_raised"), owner |-> o]>>

\* instance.save() / instance.update(): the facade writes the instance's own
\* item and, once that call has returned, sends the signal; a write that
\* raises ends the operation there.
FacadeCalls(kind, o, put_ok, signal, sender, cached) ==
    IF put_ok
    THEN <<[call |-> kind, owner |-> o]>> \o send(signal, sender, cached)
    ELSE <<[call |-> "put_raised", owner |-> o]>>

\* The calls of an operation whose last call, a save of the related
\* instance, raised: that save changed nothing.
RaiseLast(cs) == [cs EXCEPT ![Len(cs)].call = "save_raised"]

\* whether the calls contain a completed write of owner o's item
OwnerWritten(cs, o) ==
    \E i \in 1 .. Len(cs) : cs[i].call \in {"put", "update"} /\ cs[i].owner = o

\* the operations that neither read nor assign the relationship
NoAccessOps ==
    {"save", "update", "save_raised", "update_raised", "save_other",
     "update_other"}

\* the operations of the descriptor protocol and the owner writes that
\* complete
CompleteOps == {"get", "set", "delete", "save", "update"}

QueryCall(obj) == [call |-> "query", kwargs |-> query(obj)]

\* The record of an operation on owner o: what it was given (arg) and what
\* became of it (arg_after), the cache before it (pre), what it returned
\* (ret), whether the owner's query matched a row when it began (had_row),
\* whether it completed directly after a successful assignment to the same
\* owner (after_set), whether it changed the other model's table (wrote), the
\* class that sent its signal and the receivers the signal reached (sender,
\* handled), and whether a delete that removed a row came before it with no
\* read or assignment of the relationship since (after_del).
Op(op, o, err, arg, arg_after, pre, ret) ==
    [op |-> op, owner |-> o, err |-> err, arg |-> arg, arg_after |-> arg_after,
     pre |-> pre, ret |-> ret,
     had_row |-> ModelQuery(table, query(OwnerInst(o))) # {},
     after_set |-> /\ op \in CompleteOps
                   /\ last.op = "set" /\ last.err = "" /\ last.owner = o,
     wrote |-> table' # table,
     sender |-> this, handled |-> <<>>,
     after_del |-> IF op = "delete" THEN table' # table
                   ELSE IF op \in NoAccessOps THEN last.after_del
                   ELSE FALSE]

\* ------------------------------------------------------------- actions
Init ==
    /\ accessor \in Accessors
    /\ auto_create \in BOOLEAN
    /\ other_inst = NoneVal
    /\ \E present \in SUBSET Owners :
          table = {[name |-> o, age |-> (IF range_key_set(accessor) THEN 40 + o ELSE 13)]
                     : o \in present}
    /\ parent_table = [o \in Owners |-> NoneVal]
    /\ calls = <<>>
    /\ last = [op |-> "init", owner |-> 0, err |-> "", arg |-> NoneVal,
               arg_after |-> NoneVal, pre |-> NoneVal, ret |-> NoneVal,
               had_row |-> FALSE, after_set |-> FALSE, wrote |-> FALSE,
               sender |-> this, handled |-> <<>>, after_del |-> FALSE]
    /\ decl = Idle
    /\ schema = Idle
    /\ many = Idle

\* value = owner.rel          (OneToOne.__get__)
Get(o) ==
    LET obj == OwnerInst(o)
    IN \E res \in NextResult(ModelQuery(table, query(obj))) :
         /\ other_inst' = get_other_inst(other_inst, obj, auto_create, res)
         /\ calls' = <<QueryCall(obj)>>
         /\ table' = table
         /\ last' = Op("get", o, "", NoneVal, NoneVal, other_inst, other_inst')
         /\ UNCHANGED <<accessor, auto_create, parent_table, decl, schema, many>>

\* owner.rel = new_instance   (OneToOne.__set__)
Set(o) ==
    LET obj == OwnerInst(o)
    IN \E new_instance \in UserInstances \cup NotInstances :
         /\ calls' = <<>>
         /\ table' = table
         /\ IF ~SetAccepts(new_instance)
            THEN /\ other_inst' = other_inst
                 /\ last' = Op("set", o, "TypeError", new_instance, new_instance,
                               other_inst, NoneVal)
            ELSE LET stamped == [SetAttrs(new_instance, query(obj))
                                    EXCEPT !.for = o]
                 IN /\ other_inst' = stamped
                    /\ last' = Op("set", o, "", new_instance, stamped,
                                  other_inst, NoneVal)
         /\ UNCHANGED <<accessor, auto_create, parent_table, decl, schema, many>>

\* del owner.rel              (OneToOne.__delete__)
Delete(o) ==
    LET obj == OwnerInst(o)
        resolves == DeleteResolves(other_inst)
    IN \E res \in (IF resolves THEN NextResult(ModelQuery(table, query(obj)))
                   ELSE {NoneVal}) :
         LET resolved == IF resolves
                         THEN get_other_inst(other_inst, obj, FALSE, res)
                         ELSE other_inst
             lookup == IF resolves THEN <<QueryCall(obj)>> ELSE <<>>
         IN /\ IF Truthy(resolved)
               THEN /\ calls' = lookup \o <<[call |-> "delete", inst |-> resolved]>>
                    /\ other_inst' = cache_after_delete(resolved)
               ELSE /\ calls' = lookup
                    /\ other_inst' = resolved
            /\ table' = ApplyCalls(table, calls')
            /\ last' = Op("delete", o, "", NoneVal, NoneVal, other_inst, NoneVal)
            /\ UNCHANGED <<accessor, auto_create, parent_table, decl, schema, many>>

\* The owning model's row as the facade writes it: the instance's attributes.
OwnerRow(o) == OwnerInst(o).fields

\* owner.save(): the facade puts the owner's item, then sends post_save with
\* the owning model class as sender.
Save(o) ==
    /\ calls' = FacadeCalls("put", o, TRUE, "post_save", this, other_inst)
    /\ parent_table' = [parent_table EXCEPT ![o] = OwnerRow(o)]
    /\ table' = ApplyCalls(table, calls')
    /\ other_inst' = other_inst
    /\ last' = [Op("save", o, "", NoneVal, NoneVal, other_inst, NoneVal)
                  EXCEPT !.handled = ReceiverNames("post_save", this)]
    /\ UNCHANGED <<accessor, auto_create, decl, schema, many>>

\* owner.update(...): the facade updates the owner's item, then sends
\* post_update with the owning model class as sender.
Update(o) ==
    /\ calls' = FacadeCalls("update", o, TRUE, "post_update", this, other_inst)
    /\ parent_table' = [parent_table EXCEPT ![o] = OwnerRow(o)]
    /\ table' = ApplyCalls(table, calls')
    /\ other_inst' = other_inst
    /\ last' = [Op("update", o, "", NoneVal, NoneVal, other_inst, NoneVal)
                  EXCEPT !.handled = ReceiverNames("post_update", this)]
    /\ UNCHANGED <<accessor, auto_create, decl, schema, many>>

\* owner.save() / owner.update(...) in which a store call raises: the write
\* of the owner's item (at = "owner"), or the save of the related instance
\* the cascade makes (at = "related"). The exception propagates; nothing is
\* undone.
Raises(o) ==
    \E kind \in {"save", "update"}, at \in {"owner", "related"} :
        LET call == IF kind = "save" THEN "put" ELSE "update"
            signal == IF kind = "save" THEN "post_save" ELSE "post_update"
            cs == FacadeCalls(call, o, at # "owner", signal, this, other_inst)
        IN /\ at = "related" => Truthy(other_inst)
           /\ calls' = IF at = "related" THEN RaiseLast(cs) ELSE cs
           /\ parent_table' = IF OwnerWritten(calls', o)
                               THEN [parent_table EXCEPT ![o] = OwnerRow(o)]
                               ELSE parent_table
           /\ table' = ApplyCalls(table, calls')
           /\ other_inst' = other_inst
           /\ last' = [Op(IF kind = "save" THEN "save_raised" ELSE "update_raised",
                          o, "StoreError", NoneVal, NoneVal, other_inst, NoneVal)
                         EXCEPT !.handled =
                            IF at = "owner" THEN <<>>
                            ELSE ReceiverNames(signal, this)]
           /\ UNCHANGED <<accessor, auto_create, decl, schema, many>>

\* An instance of another model class is saved or updated: the facade writes
\* that instance's item and sends the signal with that class as sender.
OtherSave ==
    \E sender \in OtherModels, kind \in {"save", "update"} :
        LET call == IF kind = "save" THEN "put" ELSE "update"
            signal == IF kind = "save" THEN "post_save" ELSE "post_update"
        IN /\ calls' = FacadeCalls(call, 0, TRUE, signal, sender, other_inst)
           /\ table' = ApplyCalls(table, calls')
           /\ other_inst' = other_inst
           /\ last' = [Op(IF kind = "save" THEN "save_other" ELSE "update_other",
                          0, "", NoneVal, NoneVal, other_inst, NoneVal)
                         EXCEPT !.sender = sender,
                                !.handled = ReceiverNames(signal, sender)]
           /\ UNCHANGED <<accessor, auto_create, parent_table, decl, schema, many>>

Next ==
    \/ \E o \in Owners :
          \/ Get(o)
          \/ Set(o)
          \/ Delete(o)
          \/ Save(o)
          \/ Update(o)
          \/ Raises(o)
    \/ OtherSave

Spec == Init /\ [][Next]_vars

\* ------------------------------------------------------------- claims
LastOwner == OwnerInst(last.owner)

\* C1: when a Child was assigned to an owner's relationship and the owner is
\* saved next, the post_save cascade issues exactly one write for that Child,
\* a full save (partial=False), no other write of a related instance, and
\* the Child's item is then in the other model's table.
C1_AssignThenSaveWritesOnceInFull ==
    (last.op = "save" /\ last.after_set) =>
        /\ Truthy(last.pre)
        /\ last.pre.origin = "user" /\ last.pre.for = last.owner
        /\ SaveCalls(calls) =
              <<[call |-> "save", inst |-> last.pre, partial |-> FALSE]>>
        /\ WriteCalls(calls) = SaveCalls(calls)
        /\ last.pre.fields \in table

C1_Witness ==
    /\ last.op = "save" /\ last.after_set
    /\ Len(SaveCalls(calls)) = 1
    /\ last.wrote

\* C2: owner isolation: an operation performed for one owner never returns,
\* saves or deletes a related instance that was resolved or assigned for
\* another owner.
C2_OwnerIsolation ==
    (last.op \in {"get", "delete", "save", "update"}) =>
        /\ Truthy(last.ret) => last.ret.for = last.owner
        /\ \A i \in 1 .. Len(calls) :
              calls[i].call \in {"save", "delete"} =>
                  calls[i].inst.for = last.owner

\* C3: a read with auto_create=False on an owner whose query matches no row
\* returns None, whatever preceded it.
C3_AbsentReadsAsNone ==
    (last.op = "get" /\ ~auto_create /\ ~last.had_row) => last.ret = NoneVal

\* C4: a read queries the other model only when nothing is cached; while an
\* instance is cached a read returns that same instance (so a read right
\* after an assignment returns what was assigned).
C4_ReadUsesCache ==
    (last.op = "get" /\ Truthy(last.pre)) =>
        /\ QueryCalls(calls) = <<>>
        /\ last.ret = last.pre

\* C5: del owner.rel when the owner has no related row in the store is a
\* no-op in every descriptor state: no store delete, no error, no instance
\* created.
C5_DeleteOfAbsentIsNoOp ==
    (last.op = "delete" /\ ~last.had_row) =>
        /\ DeleteCalls(calls) = <<>>
        /\ ~last.wrote
        /\ last.err = ""
        /\ other_inst \in {NoneVal, last.pre}

\* C6: assigning a value that is no instance of the other model fails with a
\* type error, leaves the cached instance and the rejected value as they
\* were, and makes no store call.
C6_RejectedAssignmentChangesNothing ==
    (last.op = "set" /\ ~isinstance(last.arg, "Child")) =>
        /\ last.err = "TypeError"
        /\ other_inst = last.pre
        /\ last.arg_after = last.arg
        /\ calls = <<>>
        /\ ~last.wrote

C6_Witness ==
    /\ last.op = "set" /\ ~isinstance(last.arg, "Child")
    /\ last.err = "TypeError"
    /\ Truthy(last.pre)

\* C7: assigning a Child to an owner's relationship sets every key of
\* query(owner) on the Child, leaves its other fields alone, caches that
\* Child and touches the store in no way: no write, no query.
C7_AssignmentStampsAndCachesOnly ==
    (last.op = "set" /\ isinstance(last.arg, "Child")) =>
        LET query_kwargs == query(LastOwner)
        IN /\ last.err = ""
           /\ other_inst = last.arg_after
           /\ other_inst.type = last.arg.type
           /\ other_inst.partial = last.arg.partial
           /\ DOMAIN other_inst.fields =
                 DOMAIN last.arg.fields \cup DOMAIN query_kwargs
           /\ \A k \in DOMAIN query_kwargs :
                 other_inst.fields[k] = query_kwargs[k]
           /\ \A k \in DOMAIN last.arg.fields \ DOMAIN query_kwargs :
                 other_inst.fields[k] = last.arg.fields[k]
           /\ calls = <<>>
           /\ ~last.wrote

C7_Witness ==
    /\ last.op = "set" /\ isinstance(last.arg, "Child") /\ last.err = ""
    /\ other_inst.fields # last.arg.fields
    /\ range_key_set(accessor)
    /\ other_inst.fields \notin table

\* C8: a read with auto_create=True on an owner whose query matches no row
\* returns a new instance of the other model whose fields are exactly
\* query(owner), marked partial, and writes nothing to the store.
C8_AutoCreatedIsPartialAndUnsaved ==
    (last.op = "get" /\ auto_create /\ ~last.had_row) =>
        /\ last.ret.type = "Child"
        /\ last.ret.fields = query(LastOwner)
        /\ last.ret.partial
        /\ last.ret.origin = "create"
        /\ other_inst = last.ret
        /\ WriteCalls(calls) = <<>>
        /\ ~last.wrote
        /\ ModelQuery(table, last.ret.fields) = {}

C8_Witness ==
    /\ last.op = "get" /\ auto_create /\ ~last.had_row
    /\ Truthy(last.pre)
    /\ last.ret.fields = [name |-> last.owner]

\* C9: after owner.rel = R and owner.save(), the owner's stored key reference
\* child_id equals R's primary key.
C9_StoredKeyReferenceAgrees ==
    (last.op = "save" /\ last.after_set) =>
        /\ parent_table[last.owner] # NoneVal
        /\ parent_table[last.owner].child_id = PrimaryKey(other_inst.fields)

\* C10: on owner update, a cached related instance gets exactly one save, a
\* partial one; with nothing cached the cascade makes no call at all.
C10_UpdateCascadeIsOnePartialSave ==
    (last.op = "update") =>
        /\ Truthy(last.pre) =>
              /\ SaveCalls(calls) =
                    <<[call |-> "save", inst |-> last.pre, partial |-> TRUE]>>
              /\ Len(calls) = 2
        /\ ~Truthy(last.pre) =>
              /\ calls = <<[call |-> "update", owner |-> last.owner]>>
              /\ ~last.wrote

C10_Witness ==
    /\ last.op = "update"
    /\ Truthy(last.pre)
    /\ Len(SaveCalls(calls)) = 1
    /\ last.wrote

\* C18: the handlers are connected once each, for the owning class as
\* sender: an owner save reaches post_save once and nothing else, an owner
\* update reaches post_update once and nothing else (so a cached instance
\* gets one save and none without one), and a save or update of an instance
\* of another model class reaches no handler and writes no related instance.
C18_HandlersOncePerOwnerWrite ==
    /\ (last.op = "save") =>
          /\ last.handled = <<"post_save">>
          /\ Len(SaveCalls(calls)) = (IF Truthy(last.pre) THEN 1 ELSE 0)
    /\ (last.op = "update") =>
          /\ last.handled = <<"post_update">>
          /\ Len(SaveCalls(calls)) = (IF Truthy(last.pre) THEN 1 ELSE 0)
    /\ (last.op \in {"save_other", "update_other"}) =>
          /\ last.sender # this
          /\ last.handled = <<>>
          /\ Len(calls) = 1
          /\ WriteCalls(calls) = <<>>
          /\ ~last.wrote

C18_Witness ==
    /\ last.op = "save_other" /\ last.sender = "Child"
    /\ Truthy(last.pre)
    /\ last.pre.fields \notin table
    /\ calls = <<[call |-> "put", owner |-> 0]>>

\* C19: in an owner save or update the related instance is written by a call
\* of its own that comes after the completed write of the owner's item;
\* when the owner's write did not complete no receiver runs and nothing is
\* written for the related instance; when the related save raises, the
\* owner's row stays written and the other model's table is as it was.
C19_CascadeFollowsOwnerWrite ==
    (last.op \in {"save", "update", "save_raised", "update_raised"}) =>
        /\ \A i \in 1 .. Len(calls) :
              calls[i].call \in {"save", "save_raised"} =>
                  \E j \in 1 .. (i - 1) :
                      /\ calls[j].call \in {"put", "update"}
                      /\ calls[j].owner = last.owner
        /\ ~OwnerWritten(calls, last.owner) =>
              /\ calls = <<[call |-> "put_raised", owner |-> last.owner]>>
              /\ last.handled = <<>>
              /\ ~last.wrote
        /\ (\E i \in 1 .. Len(calls) : calls[i].call = "save_raised") =>
              /\ parent_table[last.owner] = OwnerRow(last.owner)
              /\ SaveCalls(calls) = <<>>
              /\ ~last.wrote

C19_Witness ==
    /\ last.op = "save_raised"
    /\ calls = <<[call |-> "put", owner |-> last.owner],
                 [call |-> "save_raised", inst |-> last.pre, partial |-> FALSE]>>
    /\ parent_table[last.owner] = OwnerRow(last.owner)
    /\ last.pre.fields \notin table

\* C20: once del owner.rel has deleted a row, the cache is empty, and as long
\* as the relationship is neither read nor assigned every owner save or
\* update that follows writes nothing to the other model's table.
C20_DeletedIsNotRecreated ==
    last.after_del =>
        /\ other_inst = NoneVal
        /\ (last.op = "delete") => DeleteCalls(calls) # <<>>
        /\ (last.op \in NoAccessOps) =>
              /\ WriteCalls(calls) = <<>>
              /\ ~last.wrote

C20_Witness ==
    /\ last.op = "save" /\ last.after_del
    /\ last.handled = <<"post_save">>
    /\ parent_table[last.owner] = OwnerRow(last.owner)
    /\ calls = <<[call |-> "put", owner |-> last.owner]>>

\* ============================================================ QuerySpec
\* Declaring a OneToOne field and calling the query it was built with
\* (OneToOne.__init__, OneToOne.default_query), for owning instances of
\* models whose key fields are named like the target's or differently.

\* the largest key value of an owning instance
MaxVal == 2

\* The descriptor of the other specifications, at rest.
DescriptorIdle ==
    /\ accessor = [hash_key |-> "name"]
    /\ auto_create = TRUE
    /\ other_inst = NoneVal
    /\ table = {}
    /\ parent_table = [o \in Owners |-> NoneVal]
    /\ calls = <<>>
    /\ last = [op |-> "init", owner |-> 0, err |-> "", arg |-> NoneVal,
               arg_after |-> NoneVal, pre |-> NoneVal, ret |-> NoneVal,
               had_row |-> FALSE, after_set |-> FALSE, wrote |-> FALSE]

AttrNames == {"name", "age", "foo"}

\* The Tables an owning model may have: its own hash key, with or without a
\* range key.
OwnerTables ==
    {[hash_key |-> h] : h \in {"name", "foo"}}
    \cup {[hash_key |-> h, range_key |-> "age"] : h \in {"name", "foo"}}

\* Owning instances: the model's Table and the instance's attributes, its
\* key fields among them.
QueryInstances ==
    UNION {UNION {{[table |-> t, fields |-> f] : f \in [D -> 1 .. MaxVal]}
                    : D \in {D \in SUBSET AttrNames : KeyNames(t) \subseteq D}}
             : t \in OwnerTables}

hasattr(instance, attr) == attr \in DOMAIN instance.fields

\* Calling the function default_query(acc) returned: the mapping, or the
\* AttributeError of a getattr for an attribute the instance lacks.
call_default_query(acc, instance) ==
    IF \A k \in KeyNames(acc) : hasattr(instance, k)
    THEN [err |-> "", value |-> default_query(acc, instance)]
    ELSE [err |-> "AttributeError", value |-> NoneVal]

\* The ways a Schema can name the relationship's target: the class itself,
\* once it is defined, or its name as a string.
Targets(child_table) ==
    {[kind |-> "str", name |-> "Child"]}
    \cup (IF child_table = NoneVal THEN {}
          ELSE {[kind |-> "class", name |-> "Child"]})

\* OneToOne.__init__(other): getattr(other, 'Table') is evaluated at once; a
\* str has no attribute Table.
OneToOne_init(other, child_table) ==
    IF other.kind = "class"
    THEN [err |-> "", other |-> other, acc |-> child_table]
    ELSE [err |-> "AttributeError", other |-> NoneVal, acc |-> NoneVal]

InitQuery ==
    /\ DescriptorIdle
    /\ schema = Idle
    /\ many = Idle
    /\ decl = [op |-> "start", child_table |-> NoneVal, target |-> NoneVal,
               other |-> NoneVal, acc |-> NoneVal, err |-> "",
               inst |-> NoneVal, result |-> NoneVal]

\* class Child(DynaModel): the target model is defined, with its Table.
DefineOther ==
    /\ decl.child_table = NoneVal
    /\ \E acc \in Accessors :
          decl' = [decl EXCEPT !.op = "define", !.child_table = acc, !.err = ""]
    /\ UNCHANGED <<descriptor_vars, schema, many>>

\* rel = OneToOne(target) in the owning model's Schema
Declare ==
    /\ decl.target = NoneVal
    /\ \E target \in Targets(decl.child_table) :
          LET made == OneToOne_init(target, decl.child_table)
          IN decl' = [decl EXCEPT !.op = "declare", !.target = target,
                                  !.other = made.other, !.acc = made.acc,
                                  !.err = made.err]
    /\ UNCHANGED <<descriptor_vars, schema, many>>

\* self.query(obj), the first step of every access
CallQuery ==
    /\ decl.acc # NoneVal
    /\ \E instance \in QueryInstances :
          LET got == call_default_query(decl.acc, instance)
          IN decl' = [decl EXCEPT !.op = "query", !.inst = instance,
                                  !.err = got.err, !.result = got.value]
    /\ UNCHANGED <<descriptor_vars, schema, many>>

NextQuery == DefineOther \/ Declare \/ CallQuery

QuerySpec == InitQuery /\ [][NextQuery]_vars

\* C11: the function default_query returns maps an owning instance to
\* exactly the target's hash-key name bound to the instance's own hash-key
\* value and, when the target has a range key, the target's range-key name
\* bound to the instance's own sort-key value, also for owners whose key
\* fields are named differently from the target's.
C11_DefaultQueryBindsOwnKeys ==
    (decl.op = "query") =>
        /\ decl.err = ""
        /\ DOMAIN decl.result = KeyNames(decl.acc)
        /\ decl.result[decl.acc.hash_key] =
              decl.inst.fields[decl.inst.table.hash_key]
        /\ range_key_set(decl.acc) =>
              /\ range_key_set(decl.inst.table)
              /\ decl.result[decl.acc.range_key] =
                    decl.inst.fields[decl.inst.table.range_key]

\* C12: a relationship can be declared with its target named by a string
\* before the target exists; the name is resolved at the first access, which
\* fails with a lookup error exactly when the name was never registered.
C12_StringTargetResolvesLazily ==
    /\ (decl.op = "declare" /\ decl.target.kind = "str") => decl.err = ""
    /\ (decl.op = "query" /\ decl.target.kind = "str") =>
          (decl.err = "LookupError" <=> decl.child_table = NoneVal)

\* ============================================================ TableSpec
\* The Table descriptor of a model class: the check of its key names when
\* the class is defined, the check of its throughput when the table is
\* created or updated, and update_table's diff against the remote table.

AllFields == {"foo", "bar", "baz", "bbq"}

\* The Schemas tried: every field, or one missing: the Table's hash key, its
\* range key, or an index's hash key.
FieldSets == {AllFields} \cup {AllFields \ {f} : f \in {"foo", "bar", "baz"}}

\* The declared indexes, by name: index1 on (baz, bar), index2 on (bbq, bar).
IndexNames == {"index1", "index2"}

IndexKeys(i) == IF i = "index1" THEN {"baz", "bar"} ELSE {"bbq", "bar"}

Capacities == {5, 10}

\* The read / write attributes a Table may carry: both, one of them, or none.
Throughputs ==
    {[read |-> c, write |-> c] : c \in Capacities}
    \cup UNION {[D -> {5}] : D \in {{}, {"read"}, {"write"}}}

\* The model classes tried: a Schema's fields and a Table.
ModelDecls ==
    {[fields |-> fs, keys |-> ks, tp |-> tp, indexes |-> ix] :
        fs \in FieldSets, ks \in {{"foo", "bar"}},
        tp \in Throughputs, ix \in SUBSET IndexNames}

\* every key name the class declares: the Table's and its indexes'
DeclaredKeys(d) == d.keys \cup UNION {IndexKeys(i) : i \in d.indexes}

\* A variant of KeysInSchema that checks the Table's keys only.
KeysInSchema_table_only(d) == d.keys \subseteq d.fields

\* the class is defined only if every declared key names a Schema field
KeysInSchema(d) == DeclaredKeys(d) \subseteq d.fields

\* A variant of HasThroughput that asks for read only.
HasThroughput_read_only(d) == "read" \in DOMAIN d.tp

\* create_table / update_table need both read and write
HasThroughput(d) == {"read", "write"} \subseteq DOMAIN d.tp

\* A variant of update_table_changes that does not count removed indexes.
update_table_changes_no_removals(d, remote) ==
    (IF d.tp # remote.tp THEN 1 ELSE 0)
    + Cardinality(d.indexes \ remote.indexes)

\* update_table's return value: one change for the throughput if it differs,
\* one per index to add, one per index to remove.
update_table_changes(d, remote) ==
    (IF d.tp # remote.tp THEN 1 ELSE 0)
    + Cardinality(d.indexes \ remote.indexes)
    + Cardinality(remote.indexes \ d.indexes)

\* A variant of update_table_remote that never removes a remote index.
update_table_remote_keeps(d, remote) ==
    [tp |-> d.tp, indexes |-> d.indexes \cup remote.indexes]

\* the remote table once update_table has applied its changes
update_table_remote(d, remote) == [tp |-> d.tp, indexes |-> d.indexes]

TableOp(op, err, attempt, result, store_calls) ==
    [schema EXCEPT !.op = op, !.err = err, !.attempt = attempt,
                   !.result = result, !.store_calls = store_calls,
                   !.before = schema.remote,
                   !.after_update = schema.op = "update_table" /\ schema.err = ""]

InitTable ==
    /\ DescriptorIdle
    /\ decl = Idle
    /\ many = Idle
    /\ schema = [op |-> "start", err |-> "", attempt |-> NoneVal,
                 class |-> NoneVal, remote |-> NoneVal, before |-> NoneVal,
                 result |-> 0, store_calls |-> 0, after_update |-> FALSE]

\* class Model(DynaModel): ... ; the class exists only if the check passes
DefineModel ==
    /\ \E d \in ModelDecls :
          schema' = IF KeysInSchema(d)
                    THEN [TableOp("define", "", d, 0, 0) EXCEPT !.class = d]
                    ELSE TableOp("define", "InvalidSchemaField", d, 0, 0)
    /\ UNCHANGED <<descriptor_vars, decl, many>>

\* Model.Table.create_table()
CreateTable ==
    /\ schema.class # NoneVal
    /\ LET d == schema.class
       IN schema' =
            IF ~HasThroughput(d)
            THEN TableOp("create_table", "MissingTableAttribute", d, 0, 0)
            ELSE IF schema.remote # NoneVal
            THEN TableOp("create_table", "ResourceInUse", d, 0, 1)
            ELSE [TableOp("create_table", "", d, 0, 1)
                    EXCEPT !.remote = [tp |-> d.tp, indexes |-> d.indexes]]
    /\ UNCHANGED <<descriptor_vars, decl, many>>

\* Model.Table.update_table()
UpdateTable ==
    /\ schema.class # NoneVal
    /\ LET d == schema.class
       IN schema' =
            IF ~HasThroughput(d)
            THEN TableOp("update_table", "MissingTableAttribute", d, 0, 0)
            ELSE IF schema.remote = NoneVal
            THEN TableOp("update_table", "ResourceNotFound", d, 0, 0)
            ELSE LET n == update_table_changes(d, schema.remote)
                 IN [TableOp("update_table", "", d, n, n)
                       EXCEPT !.remote = update_table_remote(d, schema.remote)]
    /\ UNCHANGED <<descriptor_vars, decl, many>>

\* Model.get(...) / Model.put(...): item operations, no capacity involved
ItemOp ==
    /\ schema.class # NoneVal
    /\ schema.remote # NoneVal
    /\ schema' = TableOp("item", "", schema.class, 0, 0)
    /\ UNCHANGED <<descriptor_vars, decl, many>>

NextTable == DefineModel \/ CreateTable \/ UpdateTable \/ ItemOp

TableSpec == InitTable /\ [][NextTable]_vars

\* C13: update_table is idempotent: called again right after a successful
\* update_table of the same class, it returns 0 and changes nothing remotely.
C13_UpdateTableIdempotent ==
    (schema.op = "update_table" /\ schema.after_update) =>
        /\ schema.err = ""
        /\ schema.result = 0
        /\ schema.store_calls = 0
        /\ schema.remote = schema.before

C13_Witness ==
    /\ schema.op = "update_table" /\ schema.after_update
    /\ schema.result = 0
    /\ schema.remote.indexes = {"index2"}

\* C14: update_table returns the number of differences between the class and
\* the remote table (1 for a differing throughput, 1 per index to add, 1 per
\* index to remove) and leaves the remote table equal to the declared one.
C14_UpdateTableCountsDifferences ==
    (schema.op = "update_table" /\ schema.err = "") =>
        LET d == schema.attempt
            old == schema.before
            added == {i \in IndexNames : i \in d.indexes /\ i \notin old.indexes}
            removed == {i \in IndexNames : i \in old.indexes /\ i \notin d.indexes}
        IN /\ schema.result =
                 Cardinality(added) + Cardinality(removed)
                 + (IF d.tp = old.tp THEN 0 ELSE 1)
           /\ schema.remote.tp = d.tp
           /\ schema.remote.indexes = d.indexes

\* V1 -> V2 of the test: throughput 5 -> 10 and two indexes added give 3.
C14_Witness ==
    /\ schema.op = "update_table" /\ schema.err = ""
    /\ schema.result = 3
    /\ schema.before = [tp |-> [read |-> 5, write |-> 5], indexes |-> {}]
    /\ schema.remote = [tp |-> [read |-> 10, write |-> 10],
                        indexes |-> {"index1", "index2"}]

\* C15: a class whose Table or index names a key that is no Schema field is
\* not defined: the definition fails with InvalidSchemaField and no store
\* call is made for it.
C15_UnknownKeyFailsDefinition ==
    (schema.op = "define"
       /\ \E k \in DeclaredKeys(schema.attempt) : k \notin schema.attempt.fields) =>
        /\ schema.err = "InvalidSchemaField"
        /\ schema.class # schema.attempt
        /\ schema.store_calls = 0
        /\ schema.remote = schema.before

C15_Witness ==
    /\ schema.op = "define" /\ schema.err = "InvalidSchemaField"
    /\ schema.attempt.keys \subseteq schema.attempt.fields
    /\ schema.remote # NoneVal

\* C16: with read or write missing, every create_table and update_table
\* fails with MissingTableAttribute and changes no table; defining the class
\* and item operations on it do not fail for it.
C16_MissingThroughputFailsTableCalls ==
    LET missing(d) == "read" \notin DOMAIN d.tp \/ "write" \notin DOMAIN d.tp
    IN /\ (schema.op \in {"create_table", "update_table"}
             /\ missing(schema.attempt)) =>
              /\ schema.err = "MissingTableAttribute"
              /\ schema.store_calls = 0
              /\ schema.remote = schema.before
       /\ (schema.op = "define" /\ missing(schema.attempt)
             /\ DeclaredKeys(schema.attempt) \subseteq schema.attempt.fields) =>
              schema.err = ""
       /\ (schema.op = "item") => schema.err = ""

C16_Witness ==
    /\ schema.op = "update_table" /\ schema.err = "MissingTableAttribute"
    /\ DOMAIN schema.attempt.tp = {"write"}
    /\ schema.remote # NoneVal

\* ============================================================= ManySpec
\* A Parent with a OneToMany collection of Child rows, each Child with a
\* OneToOne back-reference to its Parent (test_relationship_one_to_many).
\* Stored Child rows carry parent_id, stored Parent rows carry children_id.

\* the number of Child names
NumKids == 3

\* Child names, distinct from the Parent names 1 .. NumOwners
Kids == 11 .. (10 + NumKids)

\* The rows of the Parent table, as the facade's query sees them.
ParentRows(m) == {[name |-> o, children_id |-> m.children_id[o]] : o \in Owners}

\* The sequence of the members of a set of numbers, ascending.
RECURSIVE Ascending(_)
Ascending(S) ==
    IF S = {} THEN <<>>
    ELSE LET x == CHOOSE x \in S : \A y \in S : x <= y
         IN <<x>> \o Ascending(S \ {x})

\* owner.children, freshly read: the Child rows children_id names, in order
Children(m, o) ==
    [i \in 1 .. Len(m.children_id[o]) |-> m.rows[m.children_id[o][i].name]]

\* children.append(new_instance): the owner's key is stamped on the
\* instance as its foreign key, and the instance joins the collection.
append(coll, new_instance, o) ==
    Append(coll, [name |-> new_instance.name, parent_id |-> [name |-> o]])

\* child.parent, a OneToOne on Child declared with the Parent class (a string
\* target does not pass OneToOne_init), with the default query and
\* auto_create: get_other_inst queries the Parent table with the Child's own
\* attributes under the Parent table's key names, and builds a partial
\* Parent from them when no row matches.
back_reference(m, child) ==
    LET query_kwargs == default_query([hash_key |-> "name"], child)
        results == ModelQuery(ParentRows(m), query_kwargs)
    IN IF results = {} THEN [name |-> query_kwargs.name, partial |-> TRUE]
       ELSE [name |-> (CHOOSE r \in results : TRUE).name, partial |-> FALSE]

ManyOp(op, o, k, result) ==
    [many EXCEPT !.op = op, !.asked = o, !.child = k, !.result = result]

InitMany ==
    /\ DescriptorIdle
    /\ decl = Idle
    /\ schema = Idle
    /\ \E parent_of \in [Kids -> 0 .. NumOwners] :
          many = [op |-> "start", asked |-> 0, child |-> 0, result |-> NoneVal,
                  rows |-> [k \in Kids |->
                              IF parent_of[k] = 0 THEN NoneVal
                              ELSE [name |-> k,
                                    parent_id |-> [name |-> parent_of[k]]]],
                  children_id |-> [o \in Owners |->
                      LET ks == Ascending({k \in Kids : parent_of[k] = o})
                      IN [i \in 1 .. Len(ks) |-> [name |-> ks[i]]]],
                  owner |-> 0, coll |-> <<>>,
                  appended |-> [k \in Kids |-> 0]]

\* mom = Parent.get(name=o); mom.children
GetOwner(o) ==
    /\ many.owner = 0
    /\ many' = [ManyOp("get", o, 0, NoneVal)
                  EXCEPT !.owner = o, !.coll = Children(many, o)]
    /\ UNCHANGED <<descriptor_vars, decl, schema>>

\* martin = Child(name=k); martin.save()
NewChild(k) ==
    /\ many.rows[k] = NoneVal
    /\ many' = [ManyOp("new", 0, k, NoneVal) EXCEPT !.rows[k] = [name |-> k]]
    /\ UNCHANGED <<descriptor_vars, decl, schema>>

\* mom.children.append(martin)
AppendChild(k) ==
    /\ many.owner # 0
    /\ many.rows[k] = [name |-> k]
    /\ \A i \in 1 .. Len(many.coll) : many.coll[i].name # k
    /\ many' = [ManyOp("append", many.owner, k, NoneVal)
                  EXCEPT !.coll = append(many.coll, many.rows[k], many.owner)]
    /\ UNCHANGED <<descriptor_vars, decl, schema>>

\* mom.save(): the owner's item is put with the keys of its collection, then
\* the post_save cascade saves the instances of the collection.
SaveOwner ==
    /\ many.owner # 0
    /\ LET o == many.owner
           coll == many.coll
           members == {coll[i].name : i \in 1 .. Len(coll)}
       IN many' = [ManyOp("save", o, 0, NoneVal) EXCEPT
                     !.children_id[o] = [i \in 1 .. Len(coll) |-> [name |-> coll[i].name]],
                     !.rows = [k \in Kids |->
                                 IF k \in members
                                 THEN coll[CHOOSE i \in 1 .. Len(coll) : coll[i].name = k]
                                 ELSE many.rows[k]],
                     !.appended = [k \in Kids |->
                                 IF k \in members /\ many.rows[k] = [name |-> k]
                                 THEN o ELSE many.appended[k]],
                     !.owner = 0, !.coll = <<>>]
    /\ UNCHANGED <<descriptor_vars, decl, schema>>

\* [kid.name for kid in Parent.get(name=o, consistent=True).children]
ReadChildren(o) ==
    /\ many' = ManyOp("children", o, 0,
                      [i \in 1 .. Len(many.children_id[o]) |->
                          Children(many, o)[i].name])
    /\ UNCHANGED <<descriptor_vars, decl, schema>>

\* Child.get(name=k).parent
ReadBackReference(k) ==
    /\ many.rows[k] # NoneVal
    /\ many' = ManyOp("parent", 0, k,
                      back_reference(many, [fields |-> many.rows[k]]))
    /\ UNCHANGED <<descriptor_vars, decl, schema>>

NextMany ==
    \/ \E o \in Owners : GetOwner(o) \/ ReadChildren(o)
    \/ \E k \in Kids : NewChild(k) \/ AppendChild(k) \/ ReadBackReference(k)
    \/ SaveOwner

ManySpec == InitMany /\ [][NextMany]_vars

\* C17: once a Child was appended to an owner's collection and the owner
\* saved, the Child's row carries the owner's key as its foreign key, a
\* consistent read of the owner lists the Child after the rows related
\* before, and the Child's back-reference resolves to that owner.
C17_AppendedChildIsRelated ==
    /\ \A k \in Kids :
          many.appended[k] # 0 =>
              many.rows[k] = [name |-> k, parent_id |-> [name |-> many.appended[k]]]
    /\ (many.op = "children") =>
          /\ \A k \in Kids : many.appended[k] = many.asked =>
                \E j \in 1 .. Len(many.result) : many.result[j] = k
          /\ \A i, j \in 1 .. Len(many.result) :
                (many.appended[many.result[i]] = 0
                   /\ many.appended[many.result[j]] # 0) => i < j
    /\ (many.op = "parent" /\ many.appended[many.child] # 0) =>
          many.result.name = many.appended[many.child]

====
